---- MODULE Spec2Model ----
(***************************************************************************)
(* RemoteUI (hass_nabucasa/remote.py): the remote-UI lifecycle manager.    *)
(*                                                                         *)
(* Every coroutine of RemoteUI is cut at its await points.  One action of  *)
(* the model is what one asyncio task runs between two suspensions: the    *)
(* event loop is single threaded, so that code is atomic, and any other    *)
(* task may run while a task is suspended.  A coroutine awaited directly   *)
(* (`await self.connect()`) starts inside the caller's step.               *)
(*                                                                         *)
(* The tasks are kept as a bag of records: a task is known by what it runs *)
(* and where it stands, and by whether self._reconnect_task or             *)
(* self._acme_task holds it (its `ref`).                                   *)
(***************************************************************************)
EXTENDS Integers, Sequences, FiniteSets, Bags, TLC

\* ---- bounds of the model
MaxTasks == 3      \* coroutines in flight at the same time
MaxClients == 2    \* tunnel client objects that exist at the same time
MaxEvents == 3     \* events from outside in one run: host calls, timer wakes,
                   \* tunnel drops, failed requests

\* ---- program constants
RENEW_IF_EXPIRES_DAYS == 25
WARN_RENEW_FAILED_DAYS == 18

None == "None"
NoTask == "None"
ATask == "Task"
NoClient == 0
NoToken == "None"
NoCert == -1
Server == "relay1"
Domain == "abc.example"

ClientIds == 1..MaxClients
\* days the certificate on disk is still valid for (expire_date - utcnow()):
\* expired, at the edge of the renewal window, beyond it
DayValues == {0, RENEW_IF_EXPIRES_DAYS, RENEW_IF_EXPIRES_DAYS + 1}
FreshDays == RENEW_IF_EXPIRES_DAYS + 1

VARIABLES
    acme,             \* self._acme: TRUE when an AcmeHandler is held
    snitun,           \* self._snitun: a client id, or NoClient
    snitun_server,    \* self._snitun_server
    instance_domain,  \* self._instance_domain
    reconnect_task,   \* self._reconnect_task: NoTask, or ATask (the task with ref "reconnect")
    acme_task,        \* self._acme_task: NoTask, or ATask (the task with ref "acme")
    token,            \* self._token: NoToken, or whether its `valid` is after utcnow()
    tasks,            \* the asyncio tasks and host-awaited coroutines: a bag of records
    clients,          \* the SniTunClientAioHttp objects, by id
    certDays,         \* certificate on disk: days to expire_date, or NoCert
    certForeign,      \* certificate on disk is for another domain
    events,           \* events from outside so far
    called,           \* the entry point of RemoteUI the last step went into, or None
    history,          \* what the host's first call has led to so far, kept while
                      \* nothing else has happened from outside
    out               \* what the last step emitted: signals, messages, raised errors

vars == <<acme, snitun, snitun_server, instance_domain, reconnect_task, acme_task,
          token, tasks, clients, certDays, certForeign, events, called, history, out>>

\* groups used in UNCHANGED
identity == <<snitun_server, instance_domain>>
disk == <<certDays, certForeign>>

\* ---- tasks
\* kind: host (a coroutine the host awaits), finish (_finish_load_backend),
\* auto (the auto-connect), sched (_certificate_handler), sup (_reconnect_snitun)
Task(k, p, ref) == [kind |-> k, pc |-> p, cancelled |-> FALSE, cli |-> NoClient,
                    ref |-> ref]
\* a coroutine the host has just called
Caller == Task("host", "entry", "none")
FreeClient == [st |-> "free", connected |-> FALSE, server |-> None]

Put(ts, r) == ts (+) SetToBag({r})
Drop(ts, r) == ts (-) SetToBag({r})
HasRoom(ts) == BagCardinality(ts) < MaxTasks
\* a task that goes on although it is cancelled
AtUncancellable(r, k, p) == r.kind = k /\ r.pc = p
At(r, k, p) == r.kind = k /\ r.pc = p /\ ~r.cancelled
AtPc(r, p) == r.pc = p /\ ~r.cancelled

\* the task a field holds (none, or one)
Held(ts, ref) == {x \in BagToSet(ts) : x.ref = ref}
\* a field lets go of the task it holds; a finished task nobody holds is gone
Unref(ts, ref) ==
    IF Held(ts, ref) = {} THEN ts
    ELSE LET x == CHOOSE x \in Held(ts, ref) : TRUE
         IN IF x.pc = "done" THEN Drop(ts, x)
            ELSE Put(Drop(ts, x), [x EXCEPT !.ref = "none"])

\* Task.cancel() on the task a field holds: a request, if it has not finished
CancelRec(r, ref) == IF r.ref = ref /\ r.pc # "done"
                     THEN [r EXCEPT !.cancelled = TRUE] ELSE r
Cancel(ts, ref) ==
    IF Held(ts, ref) = {} THEN ts
    ELSE LET x == CHOOSE x \in Held(ts, ref) : TRUE
         IN Put(Drop(ts, x), CancelRec(x, ref))

\* cloud.run_task(coro): a new task, not yet run; ref: the field that gets it
RunTask(ts, k, ref) == Put(IF ref = "none" THEN ts ELSE Unref(ts, ref),
                           Task(k, "start", ref))

\* task r is suspended at p, awaiting something of client c
Suspend(ts, r, p, c) == Put(Drop(ts, r), [r EXCEPT !.pc = p, !.cli = c])
\* the coroutine of r is over
Release(ts, r) == Drop(ts, r)
\* the coroutine of r is over, through the finally-block of _reconnect_snitun
\* (self._reconnect_task = None) or _certificate_handler (self._acme_task = None)
Exit(ts, r) ==
    IF r.kind = "sup" THEN Unref(Drop(ts, r), "reconnect")
    ELSE IF r.kind = "sched" THEN Unref(Drop(ts, r), "acme")
    ELSE Drop(ts, r)
ReconnectTaskAfterExit(k, rt) == IF k = "sup" THEN NoTask ELSE rt
AcmeTaskAfterExit(k, at) == IF k = "sched" THEN NoTask ELSE at

\* tasks of a kind that have not finished
Running(k) == {x \in BagToSet(tasks) : x.kind = k /\ x.pc # "done"}
NumRunning(k) == BagCardinality([x \in Running(k) |-> tasks[x]])

\* tasks suspended at p
NumAt(p) == BagCardinality([x \in {y \in BagToSet(tasks) : y.pc = p} |-> tasks[x]])
\* the calls of connect() under way: token requests and tunnel connects
InConnect(ts) == [x \in {y \in BagToSet(ts) : y.pc \in {"cn_token", "cn_connect"}} |-> ts[x]]
Emitted(o) == {o[i] : i \in DOMAIN o}

\* ---- tunnel clients
IsConnected(cl, sn) == sn # NoClient /\ cl[sn].connected
Referenced(c, ts, sn) == c = sn \/ \E x \in BagToSet(ts) : x.cli = c
LiveClients == {c \in ClientIds : clients[c].st = "live"}

\* ---- certificate authority client (acme.py)
AcmeCertificateAvailable == certDays # NoCert
AcmeIsValidCertificate == certDays # NoCert /\ certDays > 0
AcmeCommonNameDiffers == certDays # NoCert /\ certForeign

\* something happens outside: the host calls an entry point, the midnight timer
\* of the certificate handler fires, the tunnel drops, a request fails
HostEvent == events < MaxEvents /\ events' = events + 1
\* a request to a collaborator answers: well, or (an event) with its error
Answer(ok) == IF ok THEN UNCHANGED events ELSE HostEvent

\* an exception leaves the coroutine of task r and, with it, the task
TaskFails(r, err) ==
    /\ tasks' = Exit(tasks, r)
    /\ reconnect_task' = ReconnectTaskAfterExit(r.kind, reconnect_task)
    /\ acme_task' = AcmeTaskAfterExit(r.kind, acme_task)
    /\ out' = <<err>>

\* ---- load_backend
\* entry points that look at the certificate client instead of the tunnel handle
AcmeLoaded == acme
BackendLoaded == snitun # NoClient
\* a load_backend that starts the certificate handler without looking at the field
StartsCertificateTaskAlways(at) == TRUE
NeedsCertificateTask(at) == at = NoTask

\* load_backend returns: the certificate handler continues its loop (it sleeps),
\* every other caller is done
LoadReturn(ts, r) ==
    IF r.kind = "sched" THEN Suspend(ts, r, "ce_sleep", NoClient) ELSE Release(ts, r)

\* from the entry to `await cloud_api.async_remote_register`
LoadBackendEntry(r) ==
    /\ out' = <<>>
    /\ IF BackendLoaded
       THEN /\ tasks' = LoadReturn(tasks, r)
            /\ UNCHANGED acme_task
       ELSE LET ts1 == Suspend(tasks, r, "lb_register", NoClient)
            IN IF NeedsCertificateTask(acme_task)
               THEN /\ HasRoom(ts1)
                    /\ tasks' = RunTask(ts1, "sched", "acme")
                    /\ acme_task' = ATask
               ELSE /\ tasks' = ts1
                    /\ UNCHANGED acme_task

HostLoadBackend ==
    /\ HostEvent
    /\ HasRoom(tasks)
    /\ LoadBackendEntry(Caller)
    /\ UNCHANGED <<acme, snitun, identity, reconnect_task, token, clients, disk>>
    /\ called' = "load_backend"

\* the register call answers (200 and a body), or times out / answers another status
RegisterResponse(r) ==
    /\ AtPc(r, "lb_register")
    /\ out' = <<>>
    /\ \E ok \in BOOLEAN :
         /\ Answer(ok)
         /\ IF ok
            THEN /\ instance_domain' = Domain
                 /\ snitun_server' = Server
                 /\ acme' = TRUE
                 /\ tasks' = Suspend(tasks, r, "lb_loadcert", NoClient)
            ELSE /\ tasks' = LoadReturn(tasks, r)
                 /\ UNCHANGED <<acme, identity>>
    /\ UNCHANGED <<snitun, reconnect_task, acme_task, token, clients, disk>>
    /\ called' = None

\* run_task(self._finish_load_backend()) and return
LoadBackendFinish(r) ==
    /\ HasRoom(LoadReturn(tasks, r))
    /\ tasks' = RunTask(LoadReturn(tasks, r), "finish", "none")
    /\ out' = <<>>
    /\ UNCHANGED <<reconnect_task, acme_task>>

\* load_certificate() is done: the common name check
LoadCertificateDone(r) ==
    /\ AtPc(r, "lb_loadcert")
    /\ IF ~acme
       THEN TaskFails(r, "AttributeError")
       ELSE IF AcmeCommonNameDiffers
       THEN /\ tasks' = Suspend(tasks, r, "lb_reset", NoClient)
            /\ out' = <<>>
            /\ UNCHANGED <<reconnect_task, acme_task>>
       ELSE LoadBackendFinish(r)
    /\ UNCHANGED <<acme, snitun, identity, token, clients, disk, events>>
    /\ called' = None

\* reset_acme() is done: the foreign certificate is gone
ResetAcmeDone(r) ==
    /\ AtPc(r, "lb_reset")
    /\ certDays' = NoCert
    /\ certForeign' = FALSE
    /\ LoadBackendFinish(r)
    /\ UNCHANGED <<acme, snitun, identity, token, clients, events>>
    /\ called' = None

\* ---- _finish_load_backend
\* a finish-load that takes any certificate on disk for a valid one
NeverNeedsIssue == FALSE
NeedsIssue == ~AcmeIsValidCertificate

FinishLoadStart(r) ==
    /\ At(r, "finish", "start")
    /\ IF ~acme
       THEN TaskFails(r, "AttributeError")
       ELSE /\ tasks' = Suspend(tasks, r,
                                IF NeedsIssue THEN "fl_issue" ELSE "fl_harden",
                                NoClient)
            /\ out' = <<>>
            /\ UNCHANGED <<reconnect_task, acme_task>>
    /\ UNCHANGED <<acme, snitun, identity, token, clients, disk, events>>
    /\ called' = None

\* issue_certificate() answers: AcmeClientError, or a fresh certificate
FinishIssueDone(r) ==
    /\ At(r, "finish", "fl_issue")
    /\ \E ok \in BOOLEAN :
         /\ Answer(ok)
         /\ IF ~ok
            THEN /\ tasks' = Release(tasks, r)
                 /\ out' = <<"message_setup">>
                 /\ UNCHANGED disk
            ELSE /\ certDays' = FreshDays
                 /\ certForeign' = FALSE
                 /\ IF ~acme
                    THEN /\ tasks' = Release(tasks, r)
                         /\ out' = <<"message_ready", "AttributeError">>
                    ELSE /\ tasks' = Suspend(tasks, r, "fl_harden", NoClient)
                         /\ out' = <<"message_ready">>
    /\ UNCHANGED <<acme, snitun, identity, reconnect_task, acme_task, token, clients>>
    /\ called' = None

\* hardening_files() is done and the polling `while aiohttp_runner is None:
\* sleep(1)` has seen the runner: _create_context()
FinishRunnerReady(r) ==
    /\ At(r, "finish", "fl_harden")
    /\ IF ~acme
       THEN TaskFails(r, "AttributeError")
       ELSE /\ tasks' = Suspend(tasks, r, "fl_context", NoClient)
            /\ out' = <<>>
            /\ UNCHANGED <<reconnect_task, acme_task>>
    /\ UNCHANGED <<acme, snitun, identity, token, clients, disk, events>>
    /\ called' = None

\* a client object not in use any more may be collected and its id used again
Reusable(c) == clients[c].st # "live" /\ ~Referenced(c, tasks, snitun)
NewClient == CHOOSE c \in ClientIds : Reusable(c) /\ \A d \in ClientIds : Reusable(d) => c <= d

\* the TLS context is built: construct the tunnel client and start it
FinishContextDone(r) ==
    /\ At(r, "finish", "fl_context")
    /\ \E c \in ClientIds : Reusable(c)
    /\ clients' = [clients EXCEPT ![NewClient] =
                      [st |-> "live", connected |-> FALSE, server |-> snitun_server]]
    /\ snitun' = NewClient
    /\ tasks' = Suspend(tasks, r, "fl_start", NewClient)
    /\ out' = <<>>
    /\ UNCHANGED <<acme, identity, reconnect_task, acme_task, token, disk, events>>
    /\ called' = None

\* start() is done: backend-up, and the auto-connect
FinishStarted(r) ==
    /\ At(r, "finish", "fl_start")
    /\ out' = <<"backend_up">>
    /\ \E remote_autostart \in BOOLEAN :
         tasks' = IF remote_autostart
                  THEN RunTask(Release(tasks, r), "auto", "none")
                  ELSE Release(tasks, r)
    /\ UNCHANGED <<acme, snitun, identity, reconnect_task, acme_task, token, clients,
                   disk, events>>
    /\ called' = None

\* ---- _reconnect_snitun: the head of the loop, up to its suspension
\* (ts, rt, cl, sn: the tasks, self._reconnect_task, the clients and
\* self._snitun at that point; o: what the step has emitted so far)
ReconnectLoop(r, ts, rt, cl, sn, o) ==
    IF sn = NoClient
    THEN /\ tasks' = Exit(ts, r)
         /\ reconnect_task' = NoTask
         /\ out' = Append(o, "AttributeError")
    ELSE IF cl[sn].connected
    THEN /\ tasks' = Suspend(ts, r, "sp_wait", sn)
         /\ reconnect_task' = rt
         /\ out' = o
    ELSE /\ tasks' = Suspend(ts, r, "sp_sleep", NoClient)
         /\ reconnect_task' = rt
         /\ out' = Append(o, "disconnect")

\* ---- connect
\* a connect() without the early return
NeverConnected == FALSE
AlreadyConnected == IsConnected(clients, snitun)
\* the token as utcnow() finds it: its `valid` may have passed since it was stored
TokenNow == IF token = NoToken THEN {NoToken} ELSE {token, "expired"}
\* a token refresh that keeps any stored token, whatever its `valid`
TokenStored(tok) == tok # NoToken
TokenFresh(tok) == tok # NoToken /\ tok = "valid"
\* a connect() whose finally-block looks at the backend only
NeedsReconnectTaskAnyway(sn, rt) == sn # NoClient
NeedsReconnectTask(sn, rt) == sn # NoClient /\ rt = NoTask

\* task r as it is once the field `ref` holds another task
Unheld(r, ref) == IF r.ref = ref THEN [r EXCEPT !.ref = "none"] ELSE r

\* connect() is left: only _reconnect_snitun goes on after it
Leave(ts, r) == IF r.kind = "sup" THEN ts ELSE Release(ts, r)

\* a connect() that lets its errors through: the caller ends with the error
ConnectRaises(r, ts, rt, cl, o) ==
    /\ tasks' = Exit(ts, r)
    /\ reconnect_task' = ReconnectTaskAfterExit(r.kind, rt)
    /\ out' = o
\* connect() returns to its caller; ts is the tasks after Leave
ConnectReturn(r, ts, rt, cl, o) ==
    IF r.kind = "sup"
    THEN ReconnectLoop(r, ts, rt, cl, snitun, o)
    ELSE /\ tasks' = ts
         /\ reconnect_task' = rt
         /\ out' = o

\* the finally-block of connect(), then the return
ConnectExit(r, cl, o) ==
    LET ts0 == Leave(tasks, r)
    IN IF NeedsReconnectTask(snitun, reconnect_task)
       THEN /\ HasRoom(ts0)
            /\ ConnectReturn(Unheld(r, "reconnect"), RunTask(ts0, "sup", "reconnect"),
                             ATask, cl, o)
       ELSE ConnectReturn(r, ts0, reconnect_task, cl, o)

\* from the entry to the first suspension: the token request, or the tunnel connect
ConnectEntry(r) ==
    IF ~BackendLoaded
    THEN /\ tasks' = Exit(tasks, r)
         /\ reconnect_task' = ReconnectTaskAfterExit(r.kind, reconnect_task)
         /\ out' = <<"NotConnected">>
         /\ UNCHANGED token
    ELSE IF AlreadyConnected
    THEN /\ ConnectReturn(r, Leave(tasks, r), reconnect_task, clients, <<>>)
         /\ UNCHANGED token
    ELSE /\ \E tok \in TokenNow :
              /\ token' = tok
              /\ tasks' = IF TokenFresh(tok)
                          THEN Suspend(tasks, r, "cn_connect", snitun)
                          ELSE Suspend(tasks, r, "cn_token", NoClient)
         /\ UNCHANGED reconnect_task
         /\ out' = <<>>

HostConnect ==
    /\ HostEvent
    /\ HasRoom(tasks)
    /\ ConnectEntry(Caller)
    /\ UNCHANGED <<acme, snitun, identity, acme_task, clients, disk>>
    /\ called' = "connect"

AutoConnectStart(r) ==
    /\ At(r, "auto", "start")
    /\ ConnectEntry(r)
    /\ UNCHANGED <<acme, snitun, identity, acme_task, clients, disk, events>>
    /\ called' = "connect"

\* handle_connection_requests
HostConnectionRequest ==
    /\ HostEvent
    /\ HasRoom(tasks)
    /\ IF ~BackendLoaded
       THEN /\ out' = <<"NotConnected">>
            /\ UNCHANGED <<tasks, reconnect_task, token>>
       ELSE IF AlreadyConnected
       THEN /\ out' = <<>>
            /\ UNCHANGED <<tasks, reconnect_task, token>>
       ELSE ConnectEntry(Caller)
    /\ UNCHANGED <<acme, snitun, identity, acme_task, clients, disk>>
    /\ called' = "handle_connection_requests"

\* the token request answers: a token, or a timeout / another status
TokenResponse(r) ==
    /\ AtPc(r, "cn_token")
    /\ \E ok \in BOOLEAN :
         /\ Answer(ok)
         /\ IF ~ok
            THEN /\ ConnectExit(r, clients, <<"BackendError">>)
                 /\ UNCHANGED token
            ELSE /\ token' = "valid"
                 /\ IF snitun = NoClient
                    THEN ConnectExit(r, clients, <<>>)
                    ELSE /\ tasks' = Suspend(tasks, r, "cn_connect", snitun)
                         /\ UNCHANGED reconnect_task
                         /\ out' = <<>>
    /\ UNCHANGED <<acme, snitun, identity, acme_task, clients, disk>>
    /\ called' = None

\* the tunnel client's connect() answers: connected, or SniTunConnectionError
SnitunConnectDone(r) ==
    /\ AtPc(r, "cn_connect")
    /\ \E ok \in BOOLEAN :
         /\ Answer(ok)
         /\ IF ok /\ clients[r.cli].st = "live"
            THEN /\ clients' = [clients EXCEPT ![r.cli].connected = TRUE]
                 /\ ConnectExit(r, clients', <<"connect">>)
            ELSE /\ UNCHANGED clients
                 /\ ConnectExit(r, clients, <<>>)
    /\ UNCHANGED <<acme, snitun, identity, acme_task, token, disk>>
    /\ called' = None

\* ---- disconnect
HostDisconnect ==
    /\ HostEvent
    /\ HasRoom(tasks)
    /\ IF ~BackendLoaded
       THEN /\ out' = <<"NotConnected">>
            /\ UNCHANGED tasks
       ELSE /\ out' = <<>>
            /\ tasks' = IF AlreadyConnected
                        THEN Suspend(Cancel(tasks, "reconnect"), Caller, "dc_wait", snitun)
                        ELSE Cancel(tasks, "reconnect")
    /\ UNCHANGED <<acme, snitun, identity, reconnect_task, acme_task, token, clients,
                   disk>>
    /\ called' = "disconnect"

SnitunDisconnectDone(r) ==
    /\ AtPc(r, "dc_wait")
    /\ clients' = [clients EXCEPT ![r.cli].connected = FALSE]
    /\ tasks' = Release(tasks, r)
    /\ out' = <<"disconnect">>
    /\ UNCHANGED <<acme, snitun, identity, reconnect_task, acme_task, token, disk, events>>
    /\ called' = None

\* ---- close_backend
StoppedClient == [st |-> "stopped", connected |-> FALSE, server |-> None]
BackendDown == <<"backend_down">>

\* the cleanup, the backend-down signal and the return; c is the client stopped
CloseCleanup(r, ts, c) ==
    /\ clients' = IF c # NoClient THEN [clients EXCEPT ![c] = StoppedClient] ELSE clients
    /\ snitun' = NoClient
    /\ acme' = FALSE
    /\ token' = NoToken
    /\ instance_domain' = None
    /\ snitun_server' = None
    /\ out' = BackendDown
    /\ tasks' = IF r.kind = "sched" THEN Suspend(ts, r, "ce_settle", NoClient)
                ELSE Release(ts, r)

\* from the entry to `await self._snitun.stop()`, which may complete at once;
\* the caller may be the very task that self._acme_task holds
CloseBackendEntry(r) ==
    LET ts1 == Cancel(Cancel(tasks, "reconnect"), "acme")
        r1 == IF r.kind = "host" THEN r ELSE CancelRec(CancelRec(r, "reconnect"), "acme")
    IN IF BackendLoaded
       THEN \E atOnce \in BOOLEAN :
              IF atOnce
              THEN CloseCleanup(r1, ts1, snitun)
              ELSE /\ tasks' = Suspend(ts1, r1, "cb_stop", snitun)
                   /\ out' = <<>>
                   /\ UNCHANGED <<acme, snitun, identity, token, clients>>
       ELSE CloseCleanup(r1, ts1, NoClient)

HostCloseBackend ==
    /\ HostEvent
    /\ HasRoom(tasks)
    /\ CloseBackendEntry(Caller)
    /\ UNCHANGED <<reconnect_task, acme_task, disk>>
    /\ called' = "close_backend"

SnitunStopped(r) ==
    /\ AtPc(r, "cb_stop")
    /\ CloseCleanup(r, tasks, r.cli)
    /\ UNCHANGED <<reconnect_task, acme_task, disk, events>>
    /\ called' = None

\* ---- _reconnect_snitun
ReconnectStart(r) ==
    /\ At(r, "sup", "start")
    /\ ReconnectLoop(r, tasks, reconnect_task, clients, snitun, <<>>)
    /\ UNCHANGED <<acme, snitun, identity, acme_task, token, clients, disk, events>>
    /\ called' = None

\* self._snitun.wait() returns: the tunnel reported the disconnection
ReconnectWaitDone(r) ==
    /\ At(r, "sup", "sp_wait")
    /\ ~clients[r.cli].connected
    /\ tasks' = Suspend(tasks, r, "sp_sleep", NoClient)
    /\ out' = <<"disconnect">>
    /\ UNCHANGED <<acme, snitun, identity, reconnect_task, acme_task, token, clients,
                   disk, events>>
    /\ called' = None

\* the jitter sleep is over: await self.connect()
ReconnectSleepDone(r) ==
    /\ At(r, "sup", "sp_sleep")
    /\ ConnectEntry(r)
    /\ UNCHANGED <<acme, snitun, identity, acme_task, clients, disk, events>>
    /\ called' = "connect"

\* ---- _certificate_handler
CertificateStart(r) ==
    /\ At(r, "sched", "start")
    /\ tasks' = Suspend(tasks, r, "ce_sleep", NoClient)
    /\ out' = <<>>
    /\ UNCHANGED <<acme, snitun, identity, reconnect_task, acme_task, token, clients,
                   disk, events>>
    /\ called' = None

\* a renewal check that is off by one day
ExpiresLaterOrNow(days) == days >= RENEW_IF_EXPIRES_DAYS
ExpiresLater(days) == days > RENEW_IF_EXPIRES_DAYS

\* the certificate's remaining days after a sleep: time has passed
DaysAfterSleep == IF certDays = NoCert THEN {NoCert}
                  ELSE {d \in DayValues : d <= certDays}

\* the sleep to after midnight is over
CertificateWake(r) ==
    /\ At(r, "sched", "ce_sleep")
    /\ HostEvent
    /\ \E days \in DaysAfterSleep :
         /\ certDays' = days
         /\ IF ~BackendLoaded
            THEN /\ LoadBackendEntry(r)
                 /\ UNCHANGED reconnect_task
            ELSE IF ~acme
            THEN TaskFails(r, "AttributeError")
            ELSE IF days = NoCert
            THEN TaskFails(r, "TypeError")
            ELSE /\ tasks' = IF ExpiresLater(days) THEN tasks
                             ELSE Suspend(tasks, r, "ce_issue", NoClient)
                 /\ out' = <<>>
                 /\ UNCHANGED <<reconnect_task, acme_task>>
    /\ UNCHANGED <<acme, snitun, identity, token, clients, certForeign>>
    /\ called' = IF ~BackendLoaded THEN "load_backend" ELSE None

\* issue_certificate() answers on a renewal
CertificateIssueDone(r) ==
    /\ At(r, "sched", "ce_issue")
    /\ \E ok \in BOOLEAN :
         /\ Answer(ok)
         /\ called' = IF ok THEN "close_backend" ELSE None
         /\ IF ok
            THEN /\ certDays' = FreshDays
                 /\ certForeign' = FALSE
                 /\ CloseBackendEntry(r)
                 /\ UNCHANGED <<reconnect_task, acme_task>>
            ELSE /\ IF ~acme
                    THEN TaskFails(r, "AttributeError")
                    ELSE IF ~AcmeCertificateAvailable \/ certDays > 0
                    THEN TaskFails(r, "TypeError")
                    ELSE /\ tasks' = Suspend(tasks, r, "ce_sleep", NoClient)
                         /\ out' = <<>>
                         /\ UNCHANGED <<reconnect_task, acme_task>>
                 /\ UNCHANGED <<acme, snitun, identity, token, clients, disk>>

\* the settle sleep after close_backend(): CancelledError if close_backend()
\* cancelled this very task, else load_backend()
CertificateSettleDone(r) ==
    /\ r.kind = "sched" /\ r.pc = "ce_settle"
    /\ IF r.cancelled
       THEN /\ tasks' = Exit(tasks, r)
            /\ acme_task' = NoTask
            /\ out' = <<>>
       ELSE LoadBackendEntry(r)
    /\ UNCHANGED <<acme, snitun, identity, reconnect_task, token, clients, disk, events>>
    /\ called' = IF r.cancelled THEN None ELSE "load_backend"

\* ---- cancellation: CancelledError is thrown into the task at its suspension
Cancelled(r) ==
    /\ r.cancelled
    /\ r.pc \notin {"done", "ce_settle"}
    /\ out' = <<>>
    /\ IF r.pc = "start"
       THEN \* cancelled before its first step: the coroutine body never runs,
            \* the field keeps holding the finished task
            /\ tasks' = IF r.ref # "none"
                        THEN Put(Drop(tasks, r), [r EXCEPT !.pc = "done", !.cancelled = FALSE])
                        ELSE Release(tasks, r)
            /\ UNCHANGED <<reconnect_task, acme_task>>
       ELSE /\ IF r.pc \in {"cn_token", "cn_connect"}
                  /\ NeedsReconnectTask(snitun, reconnect_task)
               THEN /\ HasRoom(tasks)
                    /\ tasks' = Exit(RunTask(tasks, "sup", "reconnect"), r)
               ELSE tasks' = Exit(tasks, r)
            /\ reconnect_task' = ReconnectTaskAfterExit(r.kind, reconnect_task)
            /\ acme_task' = AcmeTaskAfterExit(r.kind, acme_task)
    /\ UNCHANGED <<acme, snitun, identity, token, clients, disk, events>>
    /\ called' = None

\* ---- the environment
\* the relay or the network drops the tunnel
ConnectionLost(c) ==
    /\ clients[c].connected
    /\ HostEvent
    /\ clients' = [clients EXCEPT ![c].connected = FALSE]
    /\ out' = <<>>
    /\ UNCHANGED <<acme, snitun, identity, reconnect_task, acme_task, token, tasks,
                   disk>>
    /\ called' = None

\* ---- the state after RemoteUI.__init__
Init ==
    /\ acme = FALSE
    /\ snitun = NoClient
    /\ snitun_server = None
    /\ instance_domain = None
    /\ reconnect_task = NoTask
    /\ acme_task = NoTask
    /\ token = NoToken
    /\ tasks = EmptyBag
    /\ clients = [c \in ClientIds |-> FreeClient]
    /\ certDays \in {NoCert, FreshDays}
    /\ certForeign \in BOOLEAN
    /\ (certDays = NoCert => ~certForeign)
    /\ events = 0
    /\ called = None
    /\ history = <<>>
    /\ out = <<>>

\* ---- what the first call of the host leads to
\* the step calls issue_certificate()
IssueCalled ==
    NumAt("fl_issue")' + NumAt("ce_issue")' > NumAt("fl_issue") + NumAt("ce_issue")
\* the step constructs a tunnel client
ClientConstructed == snitun' # NoClient /\ snitun' # snitun
\* the calls into RemoteUI, the calls of issue_certificate(), the tunnel clients
\* constructed (with their snitun_server) and the emissions of the step, in order
Seen ==
    (IF called' # None THEN << <<"call", called'>> >> ELSE <<>>)
    \o (IF IssueCalled THEN << <<"call", "issue_certificate">> >> ELSE <<>>)
    \o (IF ClientConstructed THEN << <<"client", clients'[snitun'].server>> >> ELSE <<>>)
    \o [i \in DOMAIN out' |-> <<"emit", out'[i]>>]
Observe == history' = IF events' = 1 THEN history \o Seen ELSE <<>>

Next ==
    \/ HostLoadBackend /\ Observe
    \/ HostCloseBackend /\ Observe
    \/ HostConnect /\ Observe
    \/ HostDisconnect /\ Observe
    \/ HostConnectionRequest /\ Observe
    \/ \E c \in ClientIds : ConnectionLost(c) /\ Observe
    \/ \E r \in BagToSet(tasks) : RegisterResponse(r) /\ Observe
    \/ \E r \in BagToSet(tasks) : LoadCertificateDone(r) /\ Observe
    \/ \E r \in BagToSet(tasks) : ResetAcmeDone(r) /\ Observe
    \/ \E r \in BagToSet(tasks) : FinishLoadStart(r) /\ Observe
    \/ \E r \in BagToSet(tasks) : FinishIssueDone(r) /\ Observe
    \/ \E r \in BagToSet(tasks) : FinishRunnerReady(r) /\ Observe
    \/ \E r \in BagToSet(tasks) : FinishContextDone(r) /\ Observe
    \/ \E r \in BagToSet(tasks) : FinishStarted(r) /\ Observe
    \/ \E r \in BagToSet(tasks) : AutoConnectStart(r) /\ Observe
    \/ \E r \in BagToSet(tasks) : TokenResponse(r) /\ Observe
    \/ \E r \in BagToSet(tasks) : SnitunConnectDone(r) /\ Observe
    \/ \E r \in BagToSet(tasks) : SnitunDisconnectDone(r) /\ Observe
    \/ \E r \in BagToSet(tasks) : SnitunStopped(r) /\ Observe
    \/ \E r \in BagToSet(tasks) : ReconnectStart(r) /\ Observe
    \/ \E r \in BagToSet(tasks) : ReconnectWaitDone(r) /\ Observe
    \/ \E r \in BagToSet(tasks) : ReconnectSleepDone(r) /\ Observe
    \/ \E r \in BagToSet(tasks) : CertificateStart(r) /\ Observe
    \/ \E r \in BagToSet(tasks) : CertificateWake(r) /\ Observe
    \/ \E r \in BagToSet(tasks) : CertificateIssueDone(r) /\ Observe
    \/ \E r \in BagToSet(tasks) : CertificateSettleDone(r) /\ Observe
    \/ \E r \in BagToSet(tasks) : Cancelled(r) /\ Observe

Spec == Init /\ [][Next]_vars

\* the fields and the tasks agree on which task each field holds
RefsConsistent ==
    /\ (reconnect_task = ATask) = (Held(tasks, "reconnect") # {})
    /\ (acme_task = ATask) = (Held(tasks, "acme") # {})
    /\ \A ref \in {"reconnect", "acme"} :
         BagCardinality([x \in Held(tasks, ref) |-> tasks[x]]) <= 1
    /\ BagCardinality(tasks) <= MaxTasks
    /\ \A x \in BagToSet(tasks) : x.cancelled => x.ref # "none"

\* ---------------------------------------------------------------- claims

\* C1: load_backend() calls started while the tunnel handle is still absent
\* issue one register call between them: never two register calls in flight.
C1_OneRegisterCall == NumAt("lb_register") <= 1

\* C2: at most one certificate handler task is alive, whatever load_backend()
\* and close_backend() calls the host and the handler itself make.
C2_OneCertificateTask == NumRunning("sched") <= 1
\* two load_backend() calls overlap, and one certificate handler runs
C2_Witness == NumRunning("sched") = 1 /\ NumAt("lb_register") >= 2

\* C3: no two tunnel clients that are constructed and not yet stopped exist at
\* the same time.
C3_OneTunnelClient == Cardinality(LiveClients) <= 1

\* C4: at most one reconnect task is alive, whatever connect(), disconnect()
\* and close_backend() calls are made.
C4_OneReconnectTask == NumRunning("sup") <= 1
\* a connect() has just succeeded while the reconnect task was already at work
C4_Witness ==
    /\ out = <<"connect">>
    /\ NumRunning("sup") = 1
    /\ \E x \in Running("sup") : x.pc # "start"

\* what one load_backend() leads to when no certificate exists and nothing fails
LoadOutcome ==
    << <<"call", "load_backend">>, <<"call", "issue_certificate">>,
       <<"emit", "message_ready">>, <<"client", Server>>, <<"emit", "backend_up">> >>
\* the same with remote_autostart: the connect() and its signal
LoadOutcomeAutostart == LoadOutcome \o << <<"call", "connect">>, <<"emit", "connect">> >>
IsPrefix(p, q) == Len(p) <= Len(q) /\ SubSeq(q, 1, Len(p)) = p
\* the host has called load_backend(), nothing else has happened since, and
\* there was no certificate before the load issued one
FirstLoad ==
    /\ events = 1
    /\ history # <<>>
    /\ Head(history) = <<"call", "load_backend">>
    /\ (certDays = NoCert \/ \E i \in DOMAIN history : history[i] = <<"emit", "message_ready">>)
\* no call of the host, finish-load or auto-connect is under way
LoadSettled == \A x \in BagToSet(tasks) : x.kind \in {"sched", "sup"}

\* C11: one load_backend() with a registration that succeeds, no certificate
\* on disk and an issuance that succeeds leads to one issue_certificate() call,
\* one ready message, one tunnel client for the registered server, one
\* backend-up signal and, with remote_autostart, one connect(): in this order,
\* nothing more, and nothing less once the load has settled.
C11_EndToEnd ==
    FirstLoad => /\ IsPrefix(history, LoadOutcomeAutostart)
                 /\ (LoadSettled => history \in {LoadOutcome, LoadOutcomeAutostart})
\* the load with remote_autostart has settled
C11_Witness == FirstLoad /\ LoadSettled /\ history = LoadOutcomeAutostart

\* a connect() attempt returns: after the tunnel connect (done or failed), or
\* after a failed token request
ConnectAttemptReturns ==
    \E r \in BagToSet(tasks) :
       \/ SnitunConnectDone(r)
       \/ TokenResponse(r) /\ "BackendError" \in Emitted(out')

\* C5: when a connect() attempt returns and the backend still exists, a reconnect
\* task that is neither finished nor cancelled is running.
C5_ReconnectTaskAfterConnect ==
    [][ConnectAttemptReturns /\ snitun' # NoClient
         => \E x \in BagToSet(tasks') : x.kind = "sup" /\ x.pc # "done" /\ ~x.cancelled]_vars

\* a connect() attempt of task r fails: the token request or the tunnel connect
\* answers with its error
ConnectFails(r) ==
    /\ r.pc \in {"cn_token", "cn_connect"}
    /\ TokenResponse(r) \/ SnitunConnectDone(r)
    /\ events' # events

\* C12: a connect() whose token request or tunnel connect fails returns to its
\* caller, emits no connect signal and leaves the tunnel as it is: a host task
\* ends without an error; the reconnect task goes on to the head of its loop
\* (where, if the backend was closed meanwhile, the loop itself fails on
\* self._snitun). A connect signal is emitted only in a step in which a tunnel
\* connect has answered well and the client is connected.
C12_ConnectSwallowsErrors ==
    [][/\ \A r \in BagToSet(tasks) :
            ConnectFails(r)
              => /\ "connect" \notin Emitted(out')
                 /\ clients' = clients
                 /\ (r.kind # "sup" => Emitted(out') \subseteq {"BackendError"})
                 /\ (r.kind = "sup" /\ snitun # NoClient
                       => /\ NumRunning("sup")' >= 1
                          /\ Emitted(out') \subseteq {"BackendError", "disconnect"})
                 /\ (r.kind = "sup" /\ snitun = NoClient
                       => out'[Len(out')] = "AttributeError")
       /\ ("connect" \in Emitted(out')
             => \E r \in BagToSet(tasks) : /\ r.pc = "cn_connect"
                                             /\ events' = events
                                             /\ clients'[r.cli].connected)]_vars
\* the reconnect task goes on after its connect() has failed
C12_Witness ==
    /\ "BackendError" \in Emitted(out)
    /\ \E x \in Running("sup") : x.pc = "sp_sleep"

\* C6: connect() called while the tunnel is connected does nothing: tunnel,
\* token and reconnect task are as before, nothing is emitted, no token request
\* and no tunnel connect is made.
C6_ConnectNoOp ==
    [][called' = "connect" /\ IsConnected(clients, snitun)
         => /\ UNCHANGED <<acme, snitun, snitun_server, instance_domain, reconnect_task,
                           acme_task, token, clients, certDays, certForeign>>
            /\ out' = <<>>
            /\ InConnect(tasks') = InConnect(tasks)
            /\ (events' # events => tasks' = tasks)]_vars
\* connect() has just been called on a connected tunnel
C6_Witness == called = "connect" /\ IsConnected(clients, snitun) /\ out = <<>>

\* C7: connect(), disconnect() and handle_connection_requests() raise
\* NotConnected exactly when the tunnel handle is absent, and then change nothing.
C7_NotConnected ==
    [][called' \in {"connect", "disconnect", "handle_connection_requests"}
         => /\ ("NotConnected" \in Emitted(out')) = (snitun = NoClient)
            /\ (snitun = NoClient /\ events' # events
                  => /\ out' = <<"NotConnected">>
                     /\ UNCHANGED <<acme, snitun, snitun_server, instance_domain,
                                    reconnect_task, acme_task, token, tasks, clients,
                                    certDays, certForeign>>)]_vars
\* an entry point has just raised NotConnected
C7_Witness ==
    /\ called \in {"connect", "disconnect", "handle_connection_requests"}
    /\ out = <<"NotConnected">>
    /\ snitun = NoClient

\* C8: close_backend() called with no backend loaded emits nothing.
C8_CloseWithoutBackendSilent ==
    [][called' = "close_backend" /\ snitun = NoClient => out' = <<>>]_vars

\* C9: every backend-down signal is for a loaded backend that the close has
\* torn down: the tunnel client is stopped, and identity, certificate client,
\* token and tunnel handle are absent.
C9_BackendDownPerBackend ==
    [][("backend_down" \in Emitted(out'))
         => /\ snitun # NoClient
            /\ clients'[snitun].st = "stopped"
            /\ snitun' = NoClient /\ ~acme' /\ token' = NoToken
            /\ snitun_server' = None /\ instance_domain' = None]_vars

\* C10: the token refresh inside connect() requests a token exactly when none is
\* stored or its `valid` has passed; a failed request leaves the stored token as
\* it was.
C10_RefreshToken ==
    [][/\ (called' \in {"connect", "handle_connection_requests"}
             /\ snitun # NoClient /\ ~IsConnected(clients, snitun)
           => /\ (NumAt("cn_token")' = NumAt("cn_token") + 1) = (token' # "valid")
              /\ (NumAt("cn_token")' = NumAt("cn_token")) = (token' = "valid"))
       /\ ("BackendError" \in Emitted(out') => token' = token)]_vars
\* a token request is under way because the stored token's `valid` has passed
C10_Witness == NumAt("cn_token") >= 1 /\ token = "expired"

\* C13: after a renewal that succeeds, the certificate handler closes the
\* backend, sleeps and calls load_backend() again: it does not end between its
\* close_backend() and that load_backend().
C13_ReloadAfterRenewal ==
    [][\A r \in BagToSet(tasks) :
          r.kind = "sched" /\ r.pc \in {"cb_stop", "ce_settle"}
          /\ CopiesIn(r, tasks') < CopiesIn(r, tasks)
            => \/ called' = "load_backend"
               \/ \E x \in BagToSet(tasks') : x.kind = "sched" /\ x.pc = "ce_settle"]_vars

\* C14: an issuance that fails on a scheduled wake does not end the certificate
\* handler: the handler goes on to its next sleep, raising nothing.
C14_IssuanceFailureNotFatal ==
    [][\A r \in BagToSet(tasks) :
          CertificateIssueDone(r) /\ events' # events
            => /\ \E x \in BagToSet(tasks') : x.kind = "sched" /\ x.pc = "ce_sleep"
               /\ out' = <<>>]_vars

\* RemoteUI.certificate after the step: there is one when the certificate
\* client is held and it has a certificate
HasCertificate == acme' /\ certDays' # NoCert

\* C15: on a wake of the certificate handler with the backend loaded,
\* issue_certificate() is called exactly when the certificate expires within
\* RENEW_IF_EXPIRES_DAYS days from now, and with a later expiry the wake changes
\* nothing; with no tunnel handle the wake calls load_backend() and renews nothing.
C15_RenewalThreshold ==
    [][\A r \in BagToSet(tasks) :
          CertificateWake(r)
            => IF snitun = NoClient
               THEN called' = "load_backend" /\ ~IssueCalled
               ELSE /\ IssueCalled = (HasCertificate /\ certDays' <= RENEW_IF_EXPIRES_DAYS)
                    /\ (HasCertificate /\ certDays' > RENEW_IF_EXPIRES_DAYS
                          => /\ UNCHANGED <<acme, snitun, snitun_server, instance_domain,
                                            reconnect_task, acme_task, token, tasks,
                                            clients, certForeign>>
                             /\ out' = <<>>
                             /\ called' = None)]_vars
\* a wake has found the certificate at the edge of the renewal window and has
\* called issue_certificate()
C15_Witness == NumAt("ce_issue") = 1 /\ certDays = RENEW_IF_EXPIRES_DAYS

\* the step takes task r on from where it stands
NumKindAt(ts, k, p) ==
    BagCardinality([x \in {y \in BagToSet(ts) : y.kind = k /\ y.pc = p} |-> ts[x]])
Moves(r) == /\ CopiesIn(r, tasks') < CopiesIn(r, tasks)
            /\ NumKindAt(tasks', r.kind, r.pc) < NumKindAt(tasks, r.kind, r.pc)
NumOf(o, e) == Cardinality({i \in DOMAIN o : o[i] = e})

\* C16: the reconnect task emits one disconnect signal when it goes to its
\* sleep, calls connect() once after each sleep and at no other point, and once
\* it is cancelled it ends at its next step without calling connect() and
\* without an error.
C16_ReconnectOncePerDisconnect ==
    [][/\ (NumAt("sp_sleep")' > NumAt("sp_sleep") => NumOf(out', "disconnect") = 1)
       /\ \A r \in BagToSet(tasks) :
            r.kind = "sup" /\ Moves(r)
              => /\ (r.pc = "sp_sleep" /\ ~r.cancelled => called' = "connect")
                 /\ (called' = "connect" => r.pc = "sp_sleep" /\ ~r.cancelled)
                 /\ (r.cancelled => /\ called' = None
                                    /\ out' = <<>>
                                    /\ NumRunning("sup")' = NumRunning("sup") - 1)]_vars
\* the reconnect task has slept and called connect()
C16_Witness ==
    /\ called = "connect"
    /\ \E x \in Running("sup") : x.pc \in {"cn_token", "cn_connect"}

\* C17: a field of the object never holds a task that is over: a cancelled
\* task has set its field back to None when it ends, also when it was
\* cancelled before its first step.
C17_NoDeadTaskHeld ==
    \A x \in BagToSet(tasks) : x.pc = "done" => x.ref = "none"

\* C18: when disconnect() has returned, a step that is not a call of connect()
\* or handle_connection_requests() by the host leaves the tunnel disconnected
\* and starts no reconnect task.
C18_StaysDisconnected ==
    [][(/\ called = "disconnect"
        /\ snitun # NoClient
        /\ ~IsConnected(clients, snitun)
        /\ called' \notin {"connect", "handle_connection_requests"})
         => /\ ~IsConnected(clients', snitun')
            /\ NumRunning("sup")' <= NumRunning("sup")]_vars

\* C19: while no tunnel client exists, no token is kept.
C19_NoTokenWithoutClient ==
    snitun = NoClient => token = NoToken

\* C20: while a tunnel client exists, the ACME handler, the relay server and
\* the instance domain are set.
C20_ClientImpliesIdentity ==
    snitun # NoClient => acme /\ snitun_server # None /\ instance_domain # None

====
